---- MODULE Spec2Model ----
(***************************************************************************)
(* Model of the liquidation bot: liquidation_bot/transaction_manager.py    *)
(* (TransactionManager: update_positions, check_liquidability,             *)
(* sign_and_send) and the engine loop of liquidation_bot/main.py           *)
(* (_run_liquidation_bot, run_liquidation_bot).                            *)
(*                                                                         *)
(* The remote node and the chain are the environment: per strategy three   *)
(* append-only event logs, three log filters with a poll cursor each, the  *)
(* signing account's balance and nonce.  Every remote call may raise.      *)
(***************************************************************************)
EXTENDS Integers, Sequences, FiniteSets, TLC

\* ---------------------------------------------------------------- bounds
\* What the environment does to the bot over a run, counted together: the
\* events other accounts cause on the chain (opens, closes, liquidations),
\* the payments into the signing account, and the calls to the remote node
\* that raise.
MaxEnv == 3
\* Where one refresh is studied alone: the length of the batch of new
\* entries it reads, and the ids that occur in it.
MaxBatch == 2

\* ------------------------------------------------------ program constants
\* main.py:92  strategies = [margintrading_address, yearn_address]
NumStrategies == 2
\* transaction_manager.py:146  generate_gas_price() * 2
GasPriceMultiplier == 2

Strategies == 1..NumStrategies
Ids == 1..MaxEnv
Kinds == {"PositionWasOpened", "PositionWasClosed", "PositionWasLiquidated"}
\* Values computeLiquidationScore(...).call()[0] can return (a signed integer).
Scores == {-1, 0, 1}
\* Values generate_gas_price() can return.
GasPrices == {1, 2}

VARIABLES
    \* the chain and the remote node
    log,            \* log[i][k]: ids of the events of kind k strategy i emitted, in order
    cursor,         \* cursor[i][k]: how much of log[i][k] the filter's get_new_entries delivered
    balance,        \* getBalance(account_address)
    nonce,          \* getTransactionCount(account_address)
    env,            \* what the environment has done so far, counted as for MaxEnv
    arrivals,       \* where one refresh is studied alone: the new entries of the first
                    \* strategy's filters in the order the chain logged them
    \* TransactionManager
    open_positions, \* self.open_positions: one list of ids per strategy
    eth_balance,    \* self.eth_balance
    \* the engine loop and the web application
    pc,             \* where run_liquidation_bot is
    ui,             \* update_positions: loop variable i
    ci,             \* check_liquidability: loop variable i
    cj,             \* check_liquidability: loop variable j
    liquidated_positions, \* the list check_liquidability builds and returns
    ni,             \* _run_liquidation_bot: messages of liquidated_positions sent so far
    bot_set,        \* whether app[BOT] is set
    app_eth_balance, \* app[ETH_BALANCE]
    escaped,        \* where the exception run_liquidation_bot caught came from
    \* the notification channel
    outbox,         \* outcome messages delivered in the current cycle
    offline_attempts, \* calls of sendMessage(text="Bot offline")
    offline_sent,   \* "Bot offline" messages delivered
    \* records of the latest calls
    last_update,    \* the pass of update_positions' loop body the last step made, if any
    last_call,      \* the sign_and_send call the last step made, if any
    last_read,      \* the entry the last step of the scan read, and its score
    read_failed_at, \* <<i, j>> of the entry whose read raised in the current scan
    submissions     \* the sign_and_send calls of the current scan, in order

chain_vars == <<log, cursor, balance, nonce, env, arrivals>>
manager_vars == <<open_positions, eth_balance>>
loop_vars == <<pc, ui, ci, cj, liquidated_positions, ni, bot_set, app_eth_balance, escaped>>
channel_vars == <<outbox, offline_attempts, offline_sent>>
record_vars == <<last_update, last_call, last_read, read_failed_at, submissions>>
vars == <<chain_vars, manager_vars, loop_vars, channel_vars, record_vars>>

\* ------------------------------------------------------------ list helpers
Range(s) == {s[n] : n \in 1..Len(s)}

Contains(s, x) == \E n \in 1..Len(s) : s[n] = x

NoDuplicates(s) == \A m, n \in 1..Len(s) : s[m] = s[n] => m = n

\* list.remove(x) for an x the list holds: the first occurrence goes.
RemoveFirst(s, x) ==
    LET n == CHOOSE m \in 1..Len(s) : s[m] = x /\ \A k \in 1..(m - 1) : s[k] # x
    IN SubSeq(s, 1, n - 1) \o SubSeq(s, n + 1, Len(s))

\* `for e in entries: list.remove(e["args"]["id"])`: list.remove raises
\* ValueError at the first id the list does not hold; the removals made
\* before stay made.
RECURSIVE RemoveEach(_, _)
RemoveEach(list, ids) ==
    IF ids = <<>> THEN [list |-> list, raised |-> FALSE]
    ELSE IF ~Contains(list, Head(ids)) THEN [list |-> list, raised |-> TRUE]
    ELSE RemoveEach(RemoveFirst(list, Head(ids)), Tail(ids))

\* ------------------------------------------------------ the event filters
\* filter.get_new_entries() (eth_getFilterChanges): the entries logged since
\* the filter's last poll.
get_new_entries(i, k) == SubSeq(log[i][k], cursor[i][k] + 1, Len(log[i][k]))

\* filter.get_all_entries() (eth_getFilterLogs): every entry the filter
\* matches, from fromBlock=0 on; the filter's poll cursor is not moved.
get_all_entries(i, k) == log[i][k]

\* The positions of strategy i that are open on the chain.
ChainOpen(i) ==
    Range(log[i]["PositionWasOpened"])
        \ (Range(log[i]["PositionWasClosed"]) \cup Range(log[i]["PositionWasLiquidated"]))

\* ------------------------------------------------------- update_positions
\* The try branch for one strategy.  fn names the get_new_entries call that
\* raises (0: none).  consumed counts the get_new_entries calls that returned.
TryBranch(list, newO, newC, newL, fn) ==
    IF list = <<>> THEN
        \* self.open_positions[i][0] raises IndexError
        [list |-> list, raised |-> TRUE, consumed |-> 0, fault |-> FALSE, missing |-> FALSE]
    ELSE IF fn = 1 THEN
        [list |-> list, raised |-> TRUE, consumed |-> 0, fault |-> TRUE, missing |-> FALSE]
    ELSE LET l1 == list \o newO IN
    IF fn = 2 THEN
        [list |-> l1, raised |-> TRUE, consumed |-> 1, fault |-> TRUE, missing |-> FALSE]
    ELSE LET r2 == RemoveEach(l1, newC) IN
    IF r2.raised THEN
        [list |-> r2.list, raised |-> TRUE, consumed |-> 2, fault |-> FALSE, missing |-> TRUE]
    ELSE IF fn = 3 THEN
        [list |-> r2.list, raised |-> TRUE, consumed |-> 2, fault |-> TRUE, missing |-> FALSE]
    ELSE LET r3 == RemoveEach(r2.list, newL) IN
        [list |-> r3.list, raised |-> r3.raised, consumed |-> 3,
         fault |-> FALSE, missing |-> r3.raised]

\* The except branch for one strategy.  fa names the get_all_entries call
\* that raises (0: none).  Nothing catches what is raised here.
ExceptBranch(list, allO, allC, allL, fa) ==
    IF fa = 1 THEN [list |-> list, raised |-> TRUE, fault |-> TRUE, missing |-> FALSE]
    ELSE LET l1 == list \o allO IN
    IF fa = 2 THEN [list |-> l1, raised |-> TRUE, fault |-> TRUE, missing |-> FALSE]
    ELSE LET r2 == RemoveEach(l1, allC) IN
    IF r2.raised THEN [list |-> r2.list, raised |-> TRUE, fault |-> FALSE, missing |-> TRUE]
    ELSE IF fa = 3 THEN [list |-> r2.list, raised |-> TRUE, fault |-> TRUE, missing |-> FALSE]
    ELSE LET r3 == RemoveEach(r2.list, allL) IN
        [list |-> r3.list, raised |-> r3.raised, fault |-> FALSE, missing |-> r3.raised]

\* One pass of the loop body of update_positions, for strategy i.
UpdateBody(i, fn, fa) ==
    LET before == open_positions[i]
        t == TryBranch(before,
                       get_new_entries(i, "PositionWasOpened"),
                       get_new_entries(i, "PositionWasClosed"),
                       get_new_entries(i, "PositionWasLiquidated"), fn)
        e == ExceptBranch(t.list,
                          get_all_entries(i, "PositionWasOpened"),
                          get_all_entries(i, "PositionWasClosed"),
                          get_all_entries(i, "PositionWasLiquidated"), fa)
    IN  IF ~t.raised THEN
            [list |-> t.list, consumed |-> t.consumed, escaped |-> FALSE,
             path |-> "incremental", fault |-> FALSE, missing |-> FALSE, faults |-> 0]
        ELSE
            [list |-> e.list, consumed |-> t.consumed, escaped |-> e.raised,
             path |-> IF before = <<>> THEN "full" ELSE "fallback",
             fault |-> t.fault \/ e.fault, missing |-> t.missing \/ e.missing,
             faults |-> (IF t.fault THEN 1 ELSE 0) + (IF e.fault THEN 1 ELSE 0)]

\* The filters whose get_new_entries returned have delivered their whole log.
AdvanceCursor(i, consumed) ==
    [cursor EXCEPT
        ![i] = [k \in Kinds |->
                  IF \/ (k = "PositionWasOpened" /\ consumed >= 1)
                     \/ (k = "PositionWasClosed" /\ consumed >= 2)
                     \/ (k = "PositionWasLiquidated" /\ consumed >= 3)
                  THEN Len(log[i][k]) ELSE cursor[i][k]]]

\* What the full scan of the except branch makes of an empty list.
FromScratch(i) ==
    ExceptBranch(<<>>,
                 get_all_entries(i, "PositionWasOpened"),
                 get_all_entries(i, "PositionWasClosed"),
                 get_all_entries(i, "PositionWasLiquidated"), 0).list

\* Removing ids where an id the list does not hold is skipped: what
\* removal as a no-op would be.
RECURSIVE RemoveEachPresent(_, _)
RemoveEachPresent(list, ids) ==
    IF ids = <<>> THEN list
    ELSE IF ~Contains(list, Head(ids)) THEN RemoveEachPresent(list, Tail(ids))
    ELSE RemoveEachPresent(RemoveFirst(list, Head(ids)), Tail(ids))

\* What this pass of update_positions gives if removing an id the list does
\* not hold does nothing: the new entries applied to a list that holds ids,
\* a full scan into an empty one.
Skipping(i) ==
    IF open_positions[i] = <<>>
    THEN RemoveEachPresent(get_all_entries(i, "PositionWasOpened"),
                           get_all_entries(i, "PositionWasClosed")
                               \o get_all_entries(i, "PositionWasLiquidated"))
    ELSE RemoveEachPresent(
             open_positions[i] \o get_new_entries(i, "PositionWasOpened"),
             get_new_entries(i, "PositionWasClosed")
                 \o get_new_entries(i, "PositionWasLiquidated"))

NoUpdate ==
    [i |-> 0, before |-> <<>>, path |-> "none", fault |-> FALSE, missing |-> FALSE,
     escaped |-> FALSE, expect |-> {}, scratch |-> <<>>, skipping |-> <<>>]

NoCall ==
    [i |-> 0, j |-> 0, id |-> 0, score |-> 0, tracked |-> FALSE, fail |-> 0, ret |-> FALSE,
     raises |-> FALSE, calls |-> <<>>, tx |-> [nonce |-> -1, gasPrice |-> 0], price |-> 0,
     fate |-> "reverted",
     balance |-> 0, nonce |-> 0, eth_balance |-> [coef |-> 0, exp |-> 0],
     messages |-> <<>>]

NoRead == [i |-> 0, j |-> 0, id |-> 0, score |-> 0]

\* ------------------------------------------------------------------- Init
\* The process has started; _run_liquidation_bot has not yet built the
\* TransactionManager.
Init ==
    /\ log = [i \in Strategies |-> [k \in Kinds |-> <<>>]]
    /\ cursor = [i \in Strategies |-> [k \in Kinds |-> 0]]
    /\ balance = 0
    /\ nonce = 0
    /\ env = 0
    /\ arrivals = <<>>
    /\ open_positions = [i \in Strategies |-> <<>>]
    /\ eth_balance = [coef |-> 0, exp |-> 0]
    /\ pc = "setup_manager"
    /\ ui = 1
    /\ ci = 1
    /\ cj = 1
    /\ liquidated_positions = <<>>
    /\ ni = 0
    /\ bot_set = FALSE
    /\ app_eth_balance = [coef |-> 0, exp |-> 0]
    /\ escaped = "none"
    /\ outbox = <<>>
    /\ offline_attempts = 0
    /\ offline_sent = 0
    /\ last_update = NoUpdate
    /\ last_call = NoCall
    /\ last_read = NoRead
    /\ read_failed_at = <<>>
    /\ submissions = <<>>

\* ------------------------------------------------------------- the chain
\* The bot sees the chain's events through update_positions alone, and each
\* pass of update_positions reads one strategy's three logs: an event takes
\* effect before the manager is built or between two cycles.
ChainMayAct ==
    /\ env < MaxEnv
    /\ env' = env + 1
    /\ pc = "setup_manager" \/ (pc = "update" /\ ui = 1)

\* A strategy opens its next position and emits PositionWasOpened.
OpenPosition(i) ==
    /\ ChainMayAct
    /\ log' = [log EXCEPT ![i]["PositionWasOpened"] =
                  Append(@, Len(log[i]["PositionWasOpened"]) + 1)]
    /\ UNCHANGED <<cursor, balance, nonce, arrivals, manager_vars, loop_vars, channel_vars,
                   record_vars>>

\* The owner of an open position closes it: PositionWasClosed.
ClosePosition(i, id) ==
    /\ ChainMayAct
    /\ id \in ChainOpen(i)
    /\ log' = [log EXCEPT ![i]["PositionWasClosed"] = Append(@, id)]
    /\ UNCHANGED <<cursor, balance, nonce, arrivals, manager_vars, loop_vars, channel_vars,
                   record_vars>>

\* Another liquidator liquidates an open position: PositionWasLiquidated.
LiquidatePosition(i, id) ==
    /\ ChainMayAct
    /\ id \in ChainOpen(i)
    /\ log' = [log EXCEPT ![i]["PositionWasLiquidated"] = Append(@, id)]
    /\ UNCHANGED <<cursor, balance, nonce, arrivals, manager_vars, loop_vars, channel_vars,
                   record_vars>>

\* Someone pays the signing account the cost of one transaction.
FundAccount ==
    /\ ChainMayAct
    /\ balance' = balance + 1
    /\ UNCHANGED <<log, cursor, nonce, arrivals, manager_vars, loop_vars, channel_vars,
                   record_vars>>

\* ------------------------------------------------------------------ setup
\* _setup_transaction_manager.  TransactionManager.__init__ sets
\* eth_balance = 0.0 and one empty list per strategy and creates the three
\* filters of each strategy with fromBlock=0.  Whether a new filter's first
\* get_new_entries replays the logs already on the chain is the node's
\* choice: it does on some nodes, and delivers only later logs on others.
\* main.py:108 calls the constructor with liquidator=..., a keyword
\* __init__ (transaction_manager.py:13-21) does not take: that call raises
\* TypeError (built = FALSE).  built = TRUE is the manager constructed
\* through __init__'s own parameters.
setup_transaction_manager(built, replay) ==
    /\ pc = "setup_manager"
    /\ IF built
       THEN /\ pc' = "setup_bot"
            /\ cursor' = [i \in Strategies |-> [k \in Kinds |->
                             IF replay THEN 0 ELSE Len(log[i][k])]]
            /\ UNCHANGED escaped
       ELSE /\ pc' = "offline"
            /\ escaped' = "setup"
            /\ UNCHANGED cursor
    /\ open_positions' = [i \in Strategies |-> <<>>]
    /\ eth_balance' = [coef |-> 0, exp |-> 0]
    /\ UNCHANGED app_eth_balance
    /\ UNCHANGED <<log, balance, nonce, env, arrivals, ui, ci, cj, liquidated_positions,
                   ni, bot_set, channel_vars, record_vars>>

\* app[BOT] = _setup_telegram_bot(config): sendMessage(text="Bot online")
\* returns, and app[BOT] is set, or raises.  Then the first pass of the
\* loop begins.
setup_telegram_bot(ok) ==
    /\ pc = "setup_bot"
    /\ IF ok
       THEN /\ bot_set' = TRUE
            /\ pc' = "update"
            /\ UNCHANGED escaped
       ELSE /\ pc' = "offline"
            /\ escaped' = "setup"
            /\ UNCHANGED bot_set
    /\ ui' = 1
    /\ UNCHANGED app_eth_balance
    /\ UNCHANGED <<chain_vars, manager_vars, ci, cj, liquidated_positions, ni,
                   channel_vars, record_vars>>

\* ------------------------------------------------------- update_positions
\* One pass of `for i in range(len(self.strategies))` in update_positions.
update_positions(fn, fa) ==
    /\ pc = "update"
    /\ LET i == ui
           u == UpdateBody(i, fn, fa)
       IN \* fn and fa each name a call this pass makes (or are 0)
          /\ u.faults = (IF fn # 0 THEN 1 ELSE 0) + (IF fa # 0 THEN 1 ELSE 0)
          /\ env + u.faults <= MaxEnv
          /\ env' = env + u.faults
          /\ open_positions' = [open_positions EXCEPT ![i] = u.list]
          /\ cursor' = AdvanceCursor(i, u.consumed)
          /\ last_update' =
                [i |-> i, before |-> open_positions[i], path |-> u.path,
                 fault |-> u.fault, missing |-> u.missing, escaped |-> u.escaped,
                 expect |-> ChainOpen(i), scratch |-> FromScratch(i),
                 skipping |-> Skipping(i)]
          /\ IF u.escaped
             THEN /\ pc' = "offline"
                  /\ escaped' = "update_positions"
                  /\ UNCHANGED <<ui, ci, cj, liquidated_positions, read_failed_at>>
             ELSE IF i < NumStrategies
             THEN /\ ui' = i + 1
                  /\ UNCHANGED <<pc, escaped, ci, cj, liquidated_positions, read_failed_at>>
             ELSE \* update_positions returns; check_liquidability begins
                  /\ pc' = "check"
                  /\ ci' = 1
                  /\ cj' = 1
                  /\ liquidated_positions' = <<>>
                  /\ read_failed_at' = <<>>
                  /\ UNCHANGED <<ui, escaped>>
    /\ last_call' = NoCall
    /\ last_read' = NoRead
    /\ UNCHANGED app_eth_balance
    /\ UNCHANGED <<log, balance, nonce, arrivals, eth_balance, ni, bot_set, channel_vars,
                   submissions>>

\* ---------------------------------------------------------- sign_and_send
\* The calls with the broadcast made before the signing.
SasCallsBroadcastFirst ==
    << "getBalance", "getBalance", "getTransactionCount", "generate_gas_price",
       "buildTransaction", "estimateGas", "sendRawTransaction", "signTransaction",
       "wait_for_transaction_receipt", "getBalance" >>

\* The remote and library calls of sign_and_send, in the order it makes them.
SasCalls ==
    << "getBalance", "getBalance", "getTransactionCount", "generate_gas_price",
       "buildTransaction", "estimateGas", "signTransaction", "sendRawTransaction",
       "wait_for_transaction_receipt", "getBalance" >>

\* Web3.fromWei(wei, "ether"): the decimal wei * 10^-18.
fromWei(wei) == [coef |-> wei, exp |-> -18]

\* The assertion written `>= 0`: a balance of zero passes it.
BalanceAssertionNonNegative(bal) == bal >= 0

\* `assert self.web3_handle.eth.getBalance(account_address) > 0`
BalanceAssertion(bal) == bal > 0

\* The try block ending with sendRawTransaction: what the wait for the
\* receipt or the last getBalance raises is not caught.
SasCatchesUpToBroadcast(stage) == stage <= 8

\* Whether sign_and_send catches an exception raised by call number stage of
\* SasCalls: its whole body is one try block with `except Exception`.
SasCatches(stage) == TRUE

\* The nonce kept from the manager's construction instead of read anew.
getTransactionCountCached(n) == 0

\* self.web3_handle.eth.getTransactionCount(account_address): the number of
\* the account's transactions the chain holds, n on the node at the call.
getTransactionCount(n) == n

\* The gas price written as fetched, without the factor.
GasPriceUnscaled(price) == price

\* "gasPrice": self.web3_handle.eth.generate_gas_price() * 2
GasPriceOf(price) == price * GasPriceMultiplier

\* sign_and_send(txn) with the account's balance bal and nonce n on the node,
\* where call number fail of SasCalls raises (0: none) and generate_gas_price
\* returns price.  stop is the last call made; raises says whether an
\* exception leaves sign_and_send.
sign_and_send(bal, n, fail, price) ==
    LET asserted == BalanceAssertion(bal)
        stop == IF fail \in 1..2 THEN fail
                ELSE IF ~asserted THEN 2
                ELSE IF fail = 0 THEN Len(SasCalls)
                ELSE fail
        failed == fail # 0 \/ ~asserted
    IN  [ret |-> ~failed,
         raises |-> failed /\ ~SasCatches(stop),
         calls |-> SubSeq(SasCalls, 1, stop),
         \* the nonce and the gas price of the dict handed to buildTransaction
         tx |-> IF stop >= 5 THEN [nonce |-> getTransactionCount(n), gasPrice |-> GasPriceOf(price)]
                ELSE [nonce |-> -1, gasPrice |-> 0],
         price |-> IF stop >= 5 \/ (stop = 4 /\ fail # 4) THEN price ELSE 0,
         \* sendRawTransaction returned: the node has the transaction
         sent |-> stop >= 9 \/ (stop = 8 /\ fail # 8)]

\* ---------------------------------------------------- check_liquidability
\* f"Position #{id} of {strategy} was liquidated", i counted from 0 there.
Message(i, id) ==
    [position |-> id,
     strategy |-> IF i - 1 = 0 THEN "MarginTradingStrategy" ELSE "YearnStrategy"]

\* The test written `score >= 0`.
FlaggedFromZero(score) == score >= 0

\* The test written `score > 1`.
FlaggedAboveOne(score) == score > 1

\* `if score > 0`
Flagged(score) == score > 0

\* The id check_liquidability reads, scores and liquidates at (i, j).
EntryId(i, j) == open_positions[i][j]

\* One pass of the inner loop of check_liquidability, at (ci, cj), or the
\* end of that loop.  raises says that positions(id).call() or
\* computeLiquidationScore(position).call() raises; read is the score
\* otherwise.  fate is what the chain does with a transaction the node got:
\* it is mined and liquidates the position, it is mined and reverts, or (when
\* the wait for the receipt raises) it is not mined.
check_liquidability(raises, read, fail, price, fate) ==
    /\ pc = "check"
    /\ cj <= Len(open_positions[ci])
    \* an input no call of this pass reads takes one value
    /\ (raises \/ ~Flagged(read)) => (fail = 0 /\ price = 1 /\ fate = "reverted")
    /\ raises => read = 0
    /\ (fail \in 1..4 \/ ~BalanceAssertion(balance)) => price = 1
    /\ ~BalanceAssertion(balance) => fail \in 0..2
    /\ env + (IF raises \/ fail # 0 THEN 1 ELSE 0) <= MaxEnv
    /\ env' = env + (IF raises \/ fail # 0 THEN 1 ELSE 0)
    /\ LET id == EntryId(ci, cj) IN
       IF raises THEN
            \* nothing in check_liquidability or _run_liquidation_bot catches it
            /\ pc' = "offline"
            /\ escaped' = "check_liquidability"
            /\ read_failed_at' = <<ci, cj>>
            /\ last_call' = NoCall
            /\ UNCHANGED <<cj, liquidated_positions, log, balance, nonce, eth_balance,
                           submissions>>
       ELSE IF ~Flagged(read) THEN
            /\ cj' = cj + 1
            /\ last_call' = NoCall
            /\ UNCHANGED <<pc, escaped, read_failed_at, liquidated_positions, log, balance,
                           nonce, eth_balance, submissions>>
       ELSE LET r == sign_and_send(balance, nonce, fail, price) IN
            /\ (fate = "success") => (r.sent /\ id \in ChainOpen(ci))
            /\ (fate = "pending") => (r.sent /\ fail = 9)
            /\ last_call' =
                  [i |-> ci, j |-> cj, id |-> id, score |-> read,
                   tracked |-> Contains(open_positions[ci], id),
                   fail |-> fail, ret |-> r.ret, raises |-> r.raises, calls |-> r.calls,
                   tx |-> r.tx, price |-> r.price, fate |-> fate,
                   balance |-> balance, nonce |-> nonce, eth_balance |-> eth_balance,
                   messages |-> liquidated_positions]
            /\ submissions' = Append(submissions,
                                      [i |-> ci, id |-> id, ret |-> r.ret, nonce |-> r.tx.nonce])
            \* a mined transaction is paid for and counted
            /\ balance' = IF r.sent /\ fate # "pending" THEN balance - 1 ELSE balance
            /\ nonce' = IF r.sent /\ fate # "pending" THEN nonce + 1 ELSE nonce
            /\ log' = IF fate = "success"
                      THEN [log EXCEPT ![ci]["PositionWasLiquidated"] = Append(@, id)]
                      ELSE log
            /\ eth_balance' = IF r.ret THEN fromWei(balance') ELSE eth_balance
            /\ IF r.raises
               THEN /\ pc' = "offline"
                    /\ escaped' = "sign_and_send"
                    /\ UNCHANGED <<cj, liquidated_positions>>
               ELSE /\ liquidated_positions' =
                          IF r.ret THEN Append(liquidated_positions, Message(ci, id))
                          ELSE liquidated_positions
                    /\ cj' = cj + 1
                    /\ UNCHANGED <<pc, escaped>>
            /\ UNCHANGED read_failed_at
    /\ last_update' = NoUpdate
    /\ last_read' = IF raises THEN NoRead
                    ELSE [i |-> ci, j |-> cj, id |-> EntryId(ci, cj), score |-> read]
    /\ UNCHANGED app_eth_balance
    /\ UNCHANGED <<cursor, arrivals, open_positions, ui, ci, ni, bot_set, channel_vars>>

\* The end of the loops where the return drops from the lists the ids the
\* scan submitted.
check_liquidability_next_pruning ==
    /\ pc = "check"
    /\ cj > Len(open_positions[ci])
    /\ IF ci < NumStrategies
       THEN /\ ci' = ci + 1
            /\ cj' = 1
            /\ UNCHANGED <<pc, ni, submissions, open_positions>>
       ELSE /\ pc' = "notify"
            /\ ni' = 0
            /\ ci' = 1
            /\ cj' = 1
            /\ submissions' = <<>>
            /\ open_positions' =
                  [i \in Strategies |->
                      SelectSeq(open_positions[i],
                                LAMBDA id : \A n \in 1..Len(submissions) :
                                    ~(submissions[n].i = i /\ submissions[n].id = id))]
    /\ last_update' = NoUpdate
    /\ last_call' = NoCall
    /\ last_read' = NoRead
    /\ UNCHANGED <<chain_vars, eth_balance, ui, liquidated_positions, bot_set,
                   app_eth_balance, escaped, channel_vars, read_failed_at>>

\* `for j in range(len(self.open_positions[i]))` is exhausted: the next
\* strategy, or `return liquidated_positions`.
check_liquidability_next ==
    /\ pc = "check"
    /\ cj > Len(open_positions[ci])
    /\ IF ci < NumStrategies
       THEN /\ ci' = ci + 1
            /\ cj' = 1
            /\ UNCHANGED <<pc, ni>>
            /\ UNCHANGED submissions
       ELSE \* i and j are gone with the call
            /\ pc' = "notify"
            /\ ni' = 0
            /\ ci' = 1
            /\ cj' = 1
            /\ submissions' = <<>>
    /\ last_update' = NoUpdate
    /\ last_call' = NoCall
    /\ last_read' = NoRead
    /\ UNCHANGED app_eth_balance
    /\ UNCHANGED <<chain_vars, manager_vars, ui, liquidated_positions, bot_set,
                   escaped, channel_vars, read_failed_at>>

\* ---------------------------------------------------- _run_liquidation_bot
\* `for val in liquidated_positions: app[BOT].sendMessage(chat_id=chatid,
\* text=val)`: one message is delivered, or sendMessage raises.
send_message(ok) ==
    /\ pc = "notify"
    /\ ni < Len(liquidated_positions)
    /\ IF ok
       THEN /\ outbox' = Append(outbox, liquidated_positions[ni + 1])
            /\ ni' = ni + 1
            /\ UNCHANGED <<pc, escaped>>
       ELSE /\ pc' = "offline"
            /\ escaped' = "sendMessage"
            /\ UNCHANGED <<outbox, ni>>
    /\ last_update' = NoUpdate
    /\ last_call' = NoCall
    /\ last_read' = NoRead
    /\ UNCHANGED app_eth_balance
    /\ UNCHANGED <<chain_vars, manager_vars, ui, ci, cj, liquidated_positions,
                   bot_set, offline_attempts, offline_sent, read_failed_at, submissions>>

\* `await asyncio.sleep(sleep_duration)`, then the next pass of `while True`.
sleep ==
    /\ pc = "notify"
    /\ ni = Len(liquidated_positions)
    /\ pc' = "update"
    /\ ui' = 1
    /\ outbox' = <<>>
    \* the list of the pass that ended is read no more
    /\ liquidated_positions' = <<>>
    /\ ni' = 0
    /\ last_update' = NoUpdate
    /\ last_call' = NoCall
    /\ last_read' = NoRead
    /\ UNCHANGED app_eth_balance
    /\ UNCHANGED <<chain_vars, manager_vars, ci, cj, bot_set, escaped, offline_attempts,
                   offline_sent, read_failed_at, submissions>>

\* ----------------------------------------------------- run_liquidation_bot
\* The except block inside the loop: after "Bot offline" the loop goes on.
AfterOfflineLoopsOn(delivered) == IF delivered THEN "update" ELSE "dead"

\* Where the except block of run_liquidation_bot leaves the task: it sends
\* "Bot offline" and raises GracefulExit ("exited"), or app[BOT] or
\* sendMessage raises and the task ends with that exception ("dead").
AfterOffline(delivered) == IF delivered THEN "exited" ELSE "dead"

\* The bare `except:` of run_liquidation_bot.
run_liquidation_bot_except(ok) ==
    /\ pc = "offline"
    /\ LET delivered == bot_set /\ ok IN
       /\ offline_attempts' = IF bot_set THEN offline_attempts + 1 ELSE offline_attempts
       /\ offline_sent' = IF delivered THEN offline_sent + 1 ELSE offline_sent
       /\ pc' = AfterOffline(delivered)
    /\ last_update' = NoUpdate
    /\ last_call' = NoCall
    /\ last_read' = NoRead
    /\ UNCHANGED app_eth_balance
    /\ UNCHANGED <<chain_vars, manager_vars, ui, ci, cj, liquidated_positions, ni,
                   bot_set, escaped, outbox, read_failed_at, submissions>>

\* ------------------------------------------------------ the status endpoint
\* handle_http_request: the balance the response "Balance: {balance} ETH"
\* shows, request.app[ETH_BALANCE].
handle_http_request == app_eth_balance

\* ------------------------------------------------------------------- Next
Chain ==
    \/ FundAccount
    \/ \E i \in Strategies : OpenPosition(i)
    \/ \E i \in Strategies, id \in Ids : ClosePosition(i, id)
    \/ \E i \in Strategies, id \in Ids : LiquidatePosition(i, id)

Next ==
    \/ Chain
    \/ \E built, replay \in BOOLEAN : setup_transaction_manager(built, replay)
    \/ \E ok \in BOOLEAN : setup_telegram_bot(ok)
    \/ \E fn, fa \in 0..3 : update_positions(fn, fa)
    \/ \E raises \in BOOLEAN, read \in Scores, fail \in 0..Len(SasCalls),
          price \in GasPrices, fate \in {"success", "reverted", "pending"} :
            check_liquidability(raises, read, fail, price, fate)
    \/ check_liquidability_next
    \/ \E ok \in BOOLEAN : send_message(ok)
    \/ sleep
    \/ \E ok \in BOOLEAN : run_liquidation_bot_except(ok)

Spec == Init /\ [][Next]_vars

\* ------------------------------------------------- one refresh on its own
\* update_positions as a function of the list it holds and of the batch of
\* entries its filters deliver.
BatchIds == 1..MaxBatch

\* The entries of kind k among events, in their order: what the filter of
\* kind k delivers of them.
RECURSIVE EntriesOfKind(_, _)
EntriesOfKind(events, k) ==
    IF events = <<>> THEN <<>>
    ELSE IF Head(events).kind = k
         THEN <<Head(events).id>> \o EntriesOfKind(Tail(events), k)
         ELSE EntriesOfKind(Tail(events), k)

\* The first strategy tracks a list of distinct ids, which its open filter
\* has delivered; then the chain logs a batch of events of that strategy.
\* Nothing else happens and no call raises.
InitRefresh ==
    /\ arrivals \in UNION {[1..n -> [kind : Kinds, id : BatchIds]] : n \in 1..MaxBatch}
    /\ open_positions \in
          {[i \in Strategies |-> IF i = 1 THEN l ELSE <<>>] :
              l \in {q \in UNION {[1..n -> BatchIds] : n \in 1..MaxBatch} : NoDuplicates(q)}}
    /\ log = [i \in Strategies |-> [k \in Kinds |->
                 IF i # 1 THEN <<>>
                 ELSE IF k = "PositionWasOpened"
                      THEN open_positions[1] \o EntriesOfKind(arrivals, k)
                      ELSE EntriesOfKind(arrivals, k)]]
    /\ cursor = [i \in Strategies |-> [k \in Kinds |->
                    IF i = 1 /\ k = "PositionWasOpened" THEN Len(open_positions[1]) ELSE 0]]
    /\ balance = 0
    /\ nonce = 0
    /\ env = 0
    /\ eth_balance = [coef |-> 0, exp |-> 0]
    /\ pc = "update"
    /\ ui = 1
    /\ ci = 1
    /\ cj = 1
    /\ liquidated_positions = <<>>
    /\ ni = 0
    /\ bot_set = TRUE
    /\ app_eth_balance = [coef |-> 0, exp |-> 0]
    /\ escaped = "none"
    /\ outbox = <<>>
    /\ offline_attempts = 0
    /\ offline_sent = 0
    /\ last_update = NoUpdate
    /\ last_call = NoCall
    /\ last_read = NoRead
    /\ read_failed_at = <<>>
    /\ submissions = <<>>

NextRefresh == update_positions(0, 0)

SpecRefresh == InitRefresh /\ [][NextRefresh]_vars

\* ------------------------------------------- the loop when no call raises
\* The steps of run_liquidation_bot where every call to the node and to the
\* notification channel returns.
Engine ==
    \/ \E built, replay \in BOOLEAN : setup_transaction_manager(built, replay)
    \/ setup_telegram_bot(TRUE)
    \/ update_positions(0, 0)
    \/ \E read \in Scores, price \in GasPrices, fate \in {"success", "reverted"} :
            check_liquidability(FALSE, read, 0, price, fate)
    \/ check_liquidability_next
    \/ send_message(TRUE)
    \/ sleep
    \/ \E ok \in BOOLEAN : run_liquidation_bot_except(ok)

\* The environment of these runs acts one time less than MaxEnv allows.
ChainLive == Chain /\ env < MaxEnv - 1

NextLive == ChainLive \/ Engine

\* The event loop keeps scheduling the task: a step of the engine that can
\* be taken is taken.
SpecLive == Init /\ [][NextLive]_vars /\ WF_vars(Engine)

\* ================================================================= claims
\* The sources an exception can escape a polling cycle from.
CycleSources == {"update_positions", "check_liquidability", "sendMessage"}

\* run_liquidation_bot has ended.
Terminal == {"exited", "dead"}

\* A pass of update_positions' loop body has just returned (not raised).
Updated == last_update.i # 0 /\ ~last_update.escaped

\* sign_and_send has just been called.
Called == last_call.i # 0

\* C1: after a pass of update_positions over a strategy's logs, the
\* strategy's tracked list, as a set, is the ids opened minus the ids closed
\* or liquidated, whichever way the logs were read.
C1_TrackedSetIsOpenedMinusClosed ==
    Updated => Range(open_positions[last_update.i]) = last_update.expect

\* C2: no id occurs twice in a strategy's list, and a fallback full re-scan
\* of a strategy whose list holds ids leaves the list a full scan of an
\* empty tracker would give.
C2_FallbackRecomputesWithoutDuplicates ==
    /\ \A i \in Strategies : NoDuplicates(open_positions[i])
    /\ (Updated /\ last_update.path = "fallback")
            => open_positions[last_update.i] = last_update.scratch

\* C3: a PositionWasClosed or PositionWasLiquidated entry whose id the list
\* does not hold raises nothing out of update_positions and changes nothing:
\* the list is what the other entries make it.
C3_RemovingUntrackedIdIsNoOp ==
    (last_update.missing /\ ~last_update.fault)
        => /\ ~last_update.escaped
           /\ open_positions[last_update.i] = last_update.skipping

\* C4: when reading one position raises during check_liquidability, the scan
\* is not aborted: the engine stays in the cycle and the other entries are
\* still evaluated.
C4_ReadFailureDoesNotAbortScan ==
    read_failed_at # <<>> => (escaped # "check_liquidability" /\ pc \notin Terminal
                              /\ pc # "offline")

\* C5: sign_and_send is called for (i, id) only when id is in strategy i's
\* list at that moment and the score read for it is greater than 0.
C5_SubmitsOnlyTrackedAndFlagged ==
    Called => (last_call.tracked /\ last_call.score > 0)

C5_Witness == Called /\ last_call.ret /\ last_call.id \in Range(open_positions[last_call.i])

\* C6: with a balance of zero sign_and_send returns False, calls nothing but
\* getBalance (no gas price, build, gas estimation, signing, broadcast), and
\* leaves eth_balance and the account's nonce as they were.
C6_ZeroBalanceReturnsFalseEarly ==
    (Called /\ last_call.balance = 0)
        => /\ ~last_call.ret
           /\ ~last_call.raises
           /\ \A n \in 1..Len(last_call.calls) : last_call.calls[n] = "getBalance"
           /\ eth_balance = last_call.eth_balance
           /\ nonce = last_call.nonce

C6_Witness == Called /\ last_call.balance = 0 /\ last_call.fail = 0

\* C7: a failure at any stage of sign_and_send comes back as False and never
\* as an exception: check_liquidability goes on with the next entry.
C7_SignAndSendFailureReturnsFalse ==
    (Called /\ (last_call.fail # 0 \/ last_call.balance = 0))
        => /\ ~last_call.ret
           /\ ~last_call.raises
           /\ escaped # "sign_and_send"
           /\ pc = "check" /\ ci = last_call.i /\ cj = last_call.j + 1

C7_Witness ==
    /\ Called /\ last_call.fail = 9 /\ ~last_call.ret
    /\ last_call.calls[Len(last_call.calls)] = "wait_for_transaction_receipt"

\* C8: the list check_liquidability builds holds exactly one message per
\* position that was flagged and whose sign_and_send returned True, naming
\* its id and strategy, and no other message.
C8_OneMessagePerLiquidatedPosition ==
    /\ Called => liquidated_positions =
                    IF last_call.ret
                    THEN Append(last_call.messages, Message(last_call.i, last_call.id))
                    ELSE last_call.messages
    /\ NoDuplicates(liquidated_positions)

\* C9: a call that raises while update_positions reads the logs is not
\* fatal and leaves the strategy's list unchanged or recomputed from
\* scratch, never partly updated.
C9_ReadErrorLeavesTrackerIntact ==
    last_update.fault
        => /\ ~last_update.escaped
           /\ \/ open_positions[last_update.i] = last_update.before
              \/ open_positions[last_update.i] = last_update.scratch

\* C10, as claimed: when an exception has escaped a polling cycle, exactly
\* one "Bot offline" message is emitted before the engine ends.
C10_ExactlyOneOfflineEmitted ==
    (pc \in Terminal /\ escaped \in CycleSources) => offline_sent = 1

\* C10, amended: when an exception has escaped a polling cycle, the engine
\* makes exactly one attempt to send "Bot offline", which delivers it
\* unless that send raises too, and then ends: nothing happens afterwards.
C10_OfflineAttemptedOnceThenStops ==
    [][ /\ pc \notin Terminal
        /\ (pc' \in Terminal /\ escaped' \in CycleSources)
              => /\ offline_attempts' = 1
                 /\ offline_sent' = IF pc' = "exited" THEN 1 ELSE 0 ]_vars

C10_Witness ==
    pc = "exited" /\ escaped = "sendMessage" /\ offline_sent = 1 /\ offline_attempts = 1

\* C11: an error during setup (configuration, the TransactionManager's
\* construction, the notification bot), before the first cycle, leads to one
\* attempt to send "Bot offline" and then to GracefulExit; the handler does
\* not itself fail first.
C11_SetupFailureSendsOfflineAndExits ==
    (pc \in Terminal /\ escaped = "setup") => (offline_attempts = 1 /\ pc = "exited")

\* A transaction has been built by the latest sign_and_send call.
Built == Called /\ Len(last_call.calls) >= 5

\* C12: the gas price of the transaction sign_and_send builds, signs and
\* broadcasts is exactly twice the price generate_gas_price returned in
\* that call.
C12_GasPriceIsTwiceFetched ==
    Built => last_call.tx.gasPrice = 2 * last_call.price

C12_Witness ==
    Called /\ last_call.ret /\ last_call.price = 2 /\ last_call.tx.gasPrice = 4

\* C13: the nonce of each built transaction is the account's transaction
\* count on the node at that sign_and_send call, read before the build and
\* after the earlier submissions of the scan have finished, so no two
\* submissions of one cycle that returned True carry the same nonce.
C13_NonceReadFreshPerSubmission ==
    /\ Built => last_call.tx.nonce = last_call.nonce
    /\ \A m, n \in 1..Len(submissions) :
          (m < n /\ submissions[m].ret /\ submissions[n].ret)
              => submissions[m].nonce # submissions[n].nonce

C13_Witness ==
    /\ Len(submissions) >= 2
    /\ submissions[1].ret /\ submissions[2].ret
    /\ submissions[2].nonce = submissions[1].nonce + 1

\* C14: sign_and_send broadcasts a raw transaction only after the balance
\* check passed and the nonce read, the gas price fetch, the build, the gas
\* estimation and the signing returned, in that order; it returns True only
\* after the wait for the broadcast transaction's receipt returned; and
\* eth_balance is refreshed on that path only: unchanged whenever False is
\* returned.
C14_SignAndSendLifecycleOrder ==
    Called =>
        /\ \A n \in 1..Len(last_call.calls) :
              last_call.calls[n] = "sendRawTransaction"
                  => /\ last_call.balance > 0
                     /\ last_call.fail \notin 1..(n - 1)
                     /\ SubSeq(last_call.calls, 1, n - 1) =
                            << "getBalance", "getBalance", "getTransactionCount",
                               "generate_gas_price", "buildTransaction", "estimateGas",
                               "signTransaction" >>
        /\ last_call.ret
              => /\ last_call.fail = 0
                 /\ \E m, n \in 1..Len(last_call.calls) :
                        /\ m < n
                        /\ last_call.calls[m] = "sendRawTransaction"
                        /\ last_call.calls[n] = "wait_for_transaction_receipt"
                 /\ eth_balance = fromWei(balance)
        /\ ~last_call.ret => eth_balance = last_call.eth_balance

C14_Witness ==
    /\ Called /\ last_call.ret
    /\ eth_balance # last_call.eth_balance
    /\ Len(last_call.calls) = 10

\* C15: within one polling cycle sign_and_send is called at most once per
\* (strategy, position id): no attempt, failed or not, is made twice in the
\* same scan.
C15_AtMostOneSubmissionPerPosition ==
    \A m, n \in 1..Len(submissions) :
        (submissions[m].i = submissions[n].i /\ submissions[m].id = submissions[n].id)
            => m = n

\* The events applied one at a time in the order they occurred: an opened
\* id is added, a closed or liquidated id is removed, and removing an id
\* the list does not hold does nothing.
RECURSIVE ApplyInOrder(_, _)
ApplyInOrder(list, events) ==
    IF events = <<>> THEN list
    ELSE ApplyInOrder(
             IF Head(events).kind = "PositionWasOpened" THEN Append(list, Head(events).id)
             ELSE IF Contains(list, Head(events).id) THEN RemoveFirst(list, Head(events).id)
             ELSE list,
             Tail(events))

\* An incremental refresh of the first strategy has just read the batch.
RefreshedBatch ==
    Updated /\ last_update.i = 1 /\ last_update.path = "incremental" /\ arrivals # <<>>

\* C16: after an incremental refresh the tracked list is what applying the
\* batch's events one at a time, in the order they occurred, makes of the
\* list, whatever the batch, a close or liquidation of an id before an open
\* of the same id included.
C16_IncrementalRefreshInArrivalOrder ==
    RefreshedBatch => open_positions[1] = ApplyInOrder(last_update.before, arrivals)

\* Two decimals that denote the same number.
SameNumber(a, b) == a = b \/ (a.coef = 0 /\ b.coef = 0)

\* C17: after a sign_and_send that returned True, the balance the status
\* endpoint serves is the snapshot that submission refreshed.
C17_StatusServesRefreshedBalance ==
    (Called /\ last_call.ret) => SameNumber(handle_http_request, eth_balance)

\* C18: sign_and_send returns True, and check_liquidability adds the
\* "was liquidated" message, only when the broadcast transaction succeeded
\* on the chain: not when it was mined and reverted.
C18_MessageOnlyForSuccessfulLiquidation ==
    (Called /\ last_call.ret)
        => /\ last_call.fate = "success"
           /\ last_call.id \in Range(log[last_call.i]["PositionWasLiquidated"])

\* C19: check_liquidability and sign_and_send leave the tracked lists as
\* they are: a submitted position stays tracked, the lists change in
\* update_positions alone, and the scan's index j stays within the list it
\* walks.
C19_ScanLeavesOpenListsAlone ==
    [][ /\ pc \in {"check", "notify"} => open_positions' = open_positions
        /\ open_positions' # open_positions => pc = "update"
        /\ pc' = "check" => cj' <= Len(open_positions'[ci']) + 1 ]_vars

C19_Witness ==
    /\ Called /\ last_call.ret /\ last_call.fate = "success"
    /\ last_call.id \in Range(open_positions[last_call.i])
    /\ last_call.id \notin ChainOpen(last_call.i)
    /\ open_positions[last_call.i][last_call.j] = last_call.id

====
